---- MODULE Spec2Model ----
(***************************************************************************)
(* Model of package config (src/config/default.go): the FullConfigLoader   *)
(* cache guarded by an RWMutex, the FrameworkConfig instances it creates,  *)
(* the provider's content and change notifications, and the goroutines     *)
(* that call Load and Reload.                                              *)
(***************************************************************************)
EXTENDS Naturals, Integers, Sequences, FiniteSets, TLC

\* ------------------------------------------------------------- bounds ---
\* FrameworkConfig objects that may be dereferenced after a cache miss
MaxInst == 2

\* ---------------------------------------------------------- universe ---
\* caller goroutines
Threads == {1, 2}
\* the goroutine on which the provider runs watch callbacks
CbThread == 0
\* no goroutine holds the write lock
NoThread == 99

\* a nil interface value (no codec / no provider resolved by the options)
Nil == "<nil>"
\* values of Codec.Name() for the codecs the options may resolve to
Codecs == {"yaml", "json"}
\* values of DataProvider.Name()
Providers == {"file"}
\* paths the callers load
Paths == {"app"}
\* paths the provider may pass to a watch callback
NotifyPaths == {"app", "etc.app"}

\* a nil []byte
NoBytes == "<nil bytes>"
\* the provider has nothing at the path: Read returns an error
NoFile == "<no file>"
JsonDoc == "{\"a\":{\"b\":5}}"
YamlDoc == "server: {port: '8080'}"
Docs == {JsonDoc, YamlDoc}

NoErr == "nil"
ErrConfigNotExist == "app/config: config not exist"
ErrProviderNotExist == "app/config: provider not exist"
ErrCodecNotExist == "app/config: codec not exist"
ErrLoad == "app/config: failed to load"
ErrParse == "app/config: failed to parse"

\* ------------------------------------------------------ dynamic tree ---
NilTree == [kind |-> "nil"]
MapV(f) == [kind |-> "map", val |-> f]
IntV(n) == [kind |-> "int", val |-> n]
FloatV(n) == [kind |-> "float", val |-> n]
StrV(s) == [kind |-> "string", val |-> s]
\* map[string]interface{}{}
EmptyMap == MapV([k \in {} |-> NilTree])

\* yaml.Unmarshal into a map[string]interface{}: flow and block mappings,
\* integers stay integers; an unterminated flow mapping is an error
YamlUnmarshal(in) ==
  CASE in = JsonDoc -> [ok |-> TRUE, tree |-> MapV([k \in {"a"} |-> MapV([j \in {"b"} |-> IntV(5)])])]
    [] in = YamlDoc -> [ok |-> TRUE, tree |-> MapV([k \in {"server"} |-> MapV([j \in {"port"} |-> StrV("8080")])])]
    [] OTHER -> [ok |-> FALSE, tree |-> EmptyMap]

\* json.Unmarshal into a map[string]interface{}: numbers become float64;
\* anything that is not a JSON text is a syntax error
JSONUnmarshal(in) ==
  CASE in = JsonDoc -> [ok |-> TRUE, tree |-> MapV([k \in {"a"} |-> MapV([j \in {"b"} |-> FloatV(5)])])]
    [] OTHER -> [ok |-> FALSE, tree |-> EmptyMap]

\* decoder.Unmarshal(in, &out), dispatched on the codec
Unmarshal(decoder, in) ==
  IF decoder = "json" THEN JSONUnmarshal(in) ELSE YamlUnmarshal(in)

\* ------------------------------------------------------------- state ---
VARIABLES
  configMap,   \* loader.configMap: key -> instance (a reference into heap)
  rwl,         \* loader.rwl: [readers, writer]
  heap,        \* the FrameworkConfig objects, by reference
  content,     \* what the provider's Read returns for each path
  watchers,    \* the callbacks handed to the provider's Watch
  th,          \* the caller goroutines: position, locals and result of a call
  cb,          \* the goroutine running a watch callback
  aborted,     \* the process died of a panic
  hist,        \* per key: what Load returned and hit since the last eviction
  published    \* instances that Load has returned to a caller

vars == <<configMap, rwl, heap, content, watchers, th, cb, aborted, hist, published>>

\* fmt.Sprintf("%s.%s.%s", yc.decoder.Name(), yc.p.Name(), path)
CacheKey(decoder, p, path) == decoder \o "." \o p \o "." \o path

Keys == {CacheKey(d, p, q) : d \in Codecs, p \in Providers, q \in Paths}

\* newFullConfig(path) after the options ran
newFullConfig(path, decoder, p) ==
  [p |-> p, unmarshedData |-> NilTree, path |-> path, decoder |-> decoder, rawData |-> NoBytes]

NoWriteTree == [kind |-> "no write"]
NoWrite == "<no write>"

\* a goroutine between calls. pc "done" is the moment a call returns, with
\* err and ret its results; the fields after ret are bookkeeping about the
\* call: what it found, read and wrote, and what the cache history was when
\* it was invoked (expE, next) and when it hit (hitE), and whether a
\* notification for its path was delivered after its Read (stale)
IdleThread ==
  [pc |-> "idle", op |-> "none", path |-> Nil, decoder |-> Nil, p |-> Nil,
   key |-> Nil, yc |-> 0, data |-> NoBytes, err |-> NoErr, ret |-> 0,
   found |-> FALSE, ierr |-> NoErr,
   touched |-> FALSE, didRead |-> FALSE, changed |-> FALSE,
   wroteRaw |-> NoWrite, wroteTree |-> NoWriteTree,
   expE |-> 0, next |-> 0, hitE |-> 0, stale |-> FALSE]

\* retE/hitE: the instance the latest Load returned / hit since the key was
\* last evicted; evSince: the instance evicted since the key was last loaded
NoHist == [retE |-> 0, hitE |-> 0, evSince |-> 0]

IdleCb == [pc |-> "idle", key |-> Nil, path |-> Nil, arg |-> Nil]

Init ==
  /\ configMap = [k \in {} |-> 0]
  /\ rwl = [readers |-> {}, writer |-> NoThread]
  /\ heap = <<>>
  /\ content = [q \in Paths |-> JsonDoc]
  /\ watchers = {}
  /\ th = [t \in Threads |-> IdleThread]
  /\ cb = IdleCb
  /\ aborted = FALSE
  /\ hist = [k \in Keys |-> NoHist]
  /\ published = {}

\* -------------------------------------------------------- cache code ---
\* _, ok := loader.configMap[key]
Hit(cm, key) == key \in DOMAIN cm

\* c, _ := loader.configMap[key]
Cached(cm, key) == cm[key]

\* an insert that keeps the entry the key already has
InsertIfAbsent(cm, key, yc) ==
  [k \in DOMAIN cm \cup {key} |-> IF k \in DOMAIN cm THEN cm[k] ELSE yc]

\* loader.configMap[key] = yc
Insert(cm, key, yc) == [k \in DOMAIN cm \cup {key} |-> IF k = key THEN yc ELSE cm[k]]

\* delete(loader.configMap, key)
Delete(cm, key) == [k \in DOMAIN cm \ {key} |-> cm[k]]

\* the nil checks in the other order
LoadCheckProviderFirst(decoder, p) ==
  IF p = Nil THEN ErrProviderNotExist
  ELSE IF decoder = Nil THEN ErrCodecNotExist
  ELSE NoErr

\* the nil checks of FullConfigLoader.Load, the decoder first
LoadCheck(decoder, p) ==
  IF decoder = Nil THEN ErrCodecNotExist
  ELSE IF p = Nil THEN ErrProviderNotExist
  ELSE NoErr

\* a Reload that reports success whatever the lookup found
ReloadResultNil(found) == NoErr

\* what FullConfigLoader.Reload returns after its cache lookup
ReloadResult(found) == IF found THEN NoErr ELSE ErrConfigNotExist

\* a callback that takes every notification for its own
MatchesAlways(p, path) == TRUE

\* the test of the watch callback: if p == path
Matches(p, path) == p = path

\* ------------------------------------------------------- bookkeeping ---
\* the process is alive and no call is at its moment of return: a return
\* hands the results to the caller before anything else is looked at
Running == ~aborted /\ \A u \in Threads : th[u].pc # "done"

\* Load calls for key that are between invocation and return
InFlight(key) == {t \in Threads : th[t].op = "Load" /\ th[t].key = key}

\* a successful Load for key returns instance r
HistReturn(h, key, r) == [h EXCEPT ![key].retE = r]

\* a goroutine is blocked in loader.rwl.Lock(): sync.RWMutex admits no new
\* reader while a writer waits
WriterPending == cb.pc = "lock" \/ \E u \in Threads : th[u].pc = "L_wlock"

\* the caller takes the results; the goroutine is free for its next call
Return(t) ==
  /\ ~aborted
  /\ th[t].pc = "done"
  /\ th' = [th EXCEPT ![t] = IdleThread]
  /\ UNCHANGED <<configMap, rwl, heap, content, watchers, cb, aborted, hist, published>>

\* ------------------------------------------- FullConfigLoader.Load ---
\* lines 40-54: build yc, run the options, the nil checks, the key
LoadStart(t, path, decoder, p) ==
  /\ Running
  /\ th[t].pc = "idle"
  /\ LET e == LoadCheck(decoder, p)
         base == [IdleThread EXCEPT !.op = "Load", !.path = path,
                                    !.decoder = decoder, !.p = p] IN
     IF e # NoErr
     THEN /\ th' = [th EXCEPT ![t] = [base EXCEPT !.pc = "done", !.err = e]]
          /\ UNCHANGED hist
     ELSE LET key == CacheKey(decoder, p, path) IN
          /\ th' = [th EXCEPT ![t] = [base EXCEPT !.pc = "L_rlock", !.key = key,
                                        !.expE = hist[key].retE,
                                        !.next = hist[key].evSince]]
          /\ hist' = [hist EXCEPT ![key].evSince = 0]
  /\ UNCHANGED <<configMap, rwl, heap, content, watchers, cb, aborted, published>>

\* line 55: loader.rwl.RLock()
LoadRLock(t) ==
  /\ Running
  /\ th[t].pc = "L_rlock"
  /\ rwl.writer = NoThread
  /\ ~WriterPending
  /\ rwl' = [rwl EXCEPT !.readers = @ \cup {t}]
  /\ th' = [th EXCEPT ![t].pc = "L_lookup"]
  /\ UNCHANGED <<configMap, heap, content, watchers, cb, aborted, hist, published>>

\* lines 56-60: the lookup; a hit returns the cached instance, a miss goes
\* on to yc.Load() with the lock released. Once MaxInst objects are in use
\* a goroutine that misses is not scheduled again and its slot is reused.
LoadLookup(t) ==
  /\ Running
  /\ th[t].pc = "L_lookup"
  /\ rwl' = [rwl EXCEPT !.readers = @ \ {t}]
  /\ LET key == th[t].key IN
     IF Hit(configMap, key)
     THEN LET c == Cached(configMap, key) IN
          /\ th' = [th EXCEPT ![t].pc = "done", ![t].found = TRUE, ![t].ret = c,
                              ![t].hitE = hist[key].hitE]
          /\ hist' = [HistReturn(hist, key, c) EXCEPT ![key].hitE = c]
          /\ published' = published \cup {c}
          /\ UNCHANGED heap
     ELSE IF Len(heap) < MaxInst
     THEN /\ heap' = Append(heap, newFullConfig(th[t].path, th[t].decoder, th[t].p))
          /\ th' = [th EXCEPT ![t].pc = "I_read", ![t].yc = Len(heap) + 1]
          /\ UNCHANGED <<hist, published>>
     ELSE /\ th' = [th EXCEPT ![t] = IdleThread]
          /\ UNCHANGED <<heap, hist, published>>
  /\ UNCHANGED <<configMap, content, watchers, cb, aborted>>

\* --------------------------------------------- FrameworkConfig.Load ---
\* lines 317-325: the provider check, p.Read(path), c.rawData = data
InstLoadRead(t) ==
  /\ Running
  /\ th[t].pc = "I_read"
  /\ LET i == th[t].yc
         c == heap[i]
         data == content[c.path] IN
     IF c.p = Nil
     THEN /\ th' = [th EXCEPT ![t].pc = "done", ![t].err = ErrProviderNotExist]
          /\ UNCHANGED heap
     ELSE IF data = NoFile
     THEN /\ th' = [th EXCEPT ![t].pc = "done", ![t].err = ErrLoad, ![t].didRead = TRUE]
          /\ UNCHANGED heap
     ELSE /\ heap' = [heap EXCEPT ![i].rawData = data]
          /\ th' = [th EXCEPT ![t].pc = "I_decode", ![t].didRead = TRUE,
                              ![t].wroteRaw = data,
                              ![t].changed = @ \/ c.rawData # data]
  /\ UNCHANGED <<configMap, rwl, content, watchers, cb, aborted, hist, published>>

\* the decode of a Load that has put yc in the cache before yc.Load()
InstLoadDecodeInsertFirst(t) ==
  /\ Running
  /\ th[t].pc = "I_decode"
  /\ LET i == th[t].yc
         c == heap[i]
         d == Unmarshal(c.decoder, c.rawData) IN
     /\ heap' = [heap EXCEPT ![i].unmarshedData = d.tree]
     /\ configMap' = IF th[t].op = "Load" THEN Insert(configMap, th[t].key, i) ELSE configMap
     /\ th' = [th EXCEPT ![t].pc = IF d.ok /\ th[t].op = "Load" THEN "L_wlock" ELSE "done",
                         ![t].err = IF d.ok THEN NoErr ELSE ErrParse,
                         ![t].wroteTree = d.tree,
                         ![t].touched = @ \/ configMap' # configMap,
                         ![t].changed = @ \/ c.unmarshedData # d.tree]
  /\ UNCHANGED <<rwl, content, watchers, cb, aborted, hist, published>>

\* lines 326-331: c.unmarshedData = map{}, decoder.Unmarshal(c.rawData, ..)
InstLoadDecode(t) ==
  /\ Running
  /\ th[t].pc = "I_decode"
  /\ LET i == th[t].yc
         c == heap[i]
         d == Unmarshal(c.decoder, c.rawData) IN
     /\ heap' = [heap EXCEPT ![i].unmarshedData = d.tree]
     /\ th' = [th EXCEPT ![t].pc = IF d.ok /\ th[t].op = "Load" THEN "L_wlock" ELSE "done",
                         ![t].err = IF d.ok THEN NoErr ELSE ErrParse,
                         ![t].wroteTree = d.tree,
                         ![t].changed = @ \/ c.unmarshedData # d.tree]
  /\ UNCHANGED <<configMap, rwl, content, watchers, cb, aborted, hist, published>>

\* line 67: loader.rwl.Lock()
LoadWLock(t) ==
  /\ Running
  /\ th[t].pc = "L_wlock"
  /\ rwl.writer = NoThread
  /\ rwl.readers = {}
  /\ rwl' = [rwl EXCEPT !.writer = t]
  /\ th' = [th EXCEPT ![t].pc = "L_insert"]
  /\ UNCHANGED <<configMap, heap, content, watchers, cb, aborted, hist, published>>

\* an insert that returns without Unlock
LoadInsertKeepsLock(t) ==
  /\ Running
  /\ th[t].pc = "L_insert"
  /\ configMap' = Insert(configMap, th[t].key, th[t].yc)
  /\ th' = [th EXCEPT ![t].pc = "L_watch", ![t].touched = TRUE]
  /\ UNCHANGED <<rwl, heap, content, watchers, cb, aborted, hist, published>>

\* lines 68-69: loader.configMap[key] = yc, Unlock
LoadInsert(t) ==
  /\ Running
  /\ th[t].pc = "L_insert"
  /\ configMap' = Insert(configMap, th[t].key, th[t].yc)
  /\ th' = [th EXCEPT ![t].pc = "L_watch", ![t].touched = TRUE]
  /\ rwl' = [rwl EXCEPT !.writer = NoThread]
  /\ UNCHANGED <<heap, content, watchers, cb, aborted, hist, published>>

\* lines 71-79: yc.p.Watch(callback), return yc
LoadWatch(t) ==
  /\ Running
  /\ th[t].pc = "L_watch"
  /\ watchers' = watchers \cup {[path |-> th[t].path, key |-> th[t].key]}
  /\ th' = [th EXCEPT ![t].pc = "done", ![t].ret = th[t].yc, ![t].touched = TRUE]
  /\ hist' = HistReturn(hist, th[t].key, th[t].yc)
  /\ published' = published \cup {th[t].yc}
  /\ UNCHANGED <<configMap, rwl, heap, content, cb, aborted>>

\* ----------------------------------------- FullConfigLoader.Reload ---
\* lines 84-88: build yc, run the options, compute the key; Name() on a
\* nil decoder or a nil provider is a nil dereference, which panics
ReloadStart(t, path, decoder, p) ==
  /\ Running
  /\ th[t].pc = "idle"
  /\ LET base == [IdleThread EXCEPT !.op = "Reload", !.path = path,
                                    !.decoder = decoder, !.p = p] IN
     IF decoder = Nil \/ p = Nil
     THEN /\ th' = [th EXCEPT ![t] = [base EXCEPT !.pc = "panic"]]
          /\ aborted' = TRUE
     ELSE /\ th' = [th EXCEPT ![t] = [base EXCEPT !.pc = "R_rlock",
                                        !.key = CacheKey(decoder, p, path)]]
          /\ UNCHANGED aborted
  /\ UNCHANGED <<configMap, rwl, heap, content, watchers, cb, hist, published>>

\* line 89: loader.rwl.RLock()
ReloadRLock(t) ==
  /\ Running
  /\ th[t].pc = "R_rlock"
  /\ rwl.writer = NoThread
  /\ ~WriterPending
  /\ rwl' = [rwl EXCEPT !.readers = @ \cup {t}]
  /\ th' = [th EXCEPT ![t].pc = "R_lookup"]
  /\ UNCHANGED <<configMap, heap, content, watchers, cb, aborted, hist, published>>

\* a lookup that goes on to config.Reload() with the read lock still held
ReloadLookupKeepsLock(t) ==
  /\ Running
  /\ th[t].pc = "R_lookup"
  /\ IF Hit(configMap, th[t].key)
     THEN /\ th' = [th EXCEPT ![t].pc = "X_read", ![t].found = TRUE,
                              ![t].yc = Cached(configMap, th[t].key)]
          /\ UNCHANGED rwl
     ELSE /\ th' = [th EXCEPT ![t].pc = "done", ![t].err = ReloadResult(FALSE)]
          /\ rwl' = [rwl EXCEPT !.readers = @ \ {t}]
  /\ UNCHANGED <<configMap, heap, content, watchers, cb, aborted, hist, published>>

\* lines 90-96: the lookup; a hit goes on to config.Reload() with the lock
\* released, a miss returns ErrConfigNotExist
ReloadLookup(t) ==
  /\ Running
  /\ th[t].pc = "R_lookup"
  /\ rwl' = [rwl EXCEPT !.readers = @ \ {t}]
  /\ IF Hit(configMap, th[t].key)
     THEN th' = [th EXCEPT ![t].pc = "X_read", ![t].found = TRUE,
                           ![t].yc = Cached(configMap, th[t].key)]
     ELSE th' = [th EXCEPT ![t].pc = "done", ![t].err = ReloadResult(FALSE)]
  /\ UNCHANGED <<configMap, heap, content, watchers, cb, aborted, hist, published>>

\* ------------------------------------------- FrameworkConfig.Reload ---
\* what the caller of c.Reload() gets back: FullConfigLoader.Reload returns
\* nil after it (line 93), a direct caller gets nothing
AfterReload(op) == IF op = "Reload" THEN ReloadResult(TRUE) ELSE NoErr

\* lines 336-350: the provider check, p.Read(path) and the decode into a
\* local map; a failure is printed and the method returns
InstReloadRead(t) ==
  /\ Running
  /\ th[t].pc = "X_read"
  /\ LET c == heap[th[t].yc]
         data == content[c.path]
         done == [th[t] EXCEPT !.pc = "done", !.err = AfterReload(th[t].op)] IN
     IF c.p = Nil
     THEN th' = [th EXCEPT ![t] = [done EXCEPT !.ierr = ErrProviderNotExist]]
     ELSE IF data = NoFile
     THEN th' = [th EXCEPT ![t] = [done EXCEPT !.ierr = ErrLoad, !.didRead = TRUE]]
     ELSE IF ~Unmarshal(c.decoder, data).ok
     THEN th' = [th EXCEPT ![t] = [done EXCEPT !.ierr = ErrParse, !.didRead = TRUE,
                                               !.data = data]]
     ELSE th' = [th EXCEPT ![t].pc = "X_raw", ![t].didRead = TRUE, ![t].data = data]
  /\ UNCHANGED <<configMap, rwl, heap, content, watchers, cb, aborted, hist, published>>

\* line 352: c.rawData = data
InstReloadRaw(t) ==
  /\ Running
  /\ th[t].pc = "X_raw"
  /\ LET i == th[t].yc IN
     /\ heap' = [heap EXCEPT ![i].rawData = th[t].data]
     /\ th' = [th EXCEPT ![t].pc = "X_tree", ![t].wroteRaw = th[t].data,
                         ![t].changed = @ \/ heap[i].rawData # th[t].data]
  /\ UNCHANGED <<configMap, rwl, content, watchers, cb, aborted, hist, published>>

\* a Reload that returns without storing the tree
InstReloadTreeSkip(t) ==
  /\ Running
  /\ th[t].pc = "X_tree"
  /\ th' = [th EXCEPT ![t].pc = "done", ![t].err = AfterReload(th[t].op)]
  /\ UNCHANGED <<configMap, rwl, heap, content, watchers, cb, aborted, hist, published>>

\* line 353: c.unmarshedData = unmarshedData, return
InstReloadTree(t) ==
  /\ Running
  /\ th[t].pc = "X_tree"
  /\ LET i == th[t].yc
         tree == Unmarshal(heap[i].decoder, th[t].data).tree IN
     /\ heap' = [heap EXCEPT ![i].unmarshedData = tree]
     /\ th' = [th EXCEPT ![t].pc = "done", ![t].wroteTree = tree,
                         ![t].err = AfterReload(th[t].op),
                         ![t].changed = @ \/ heap[i].unmarshedData # tree]
  /\ UNCHANGED <<configMap, rwl, content, watchers, cb, aborted, hist, published>>

\* ------------------------------ calls on an instance a caller holds ---
\* c.Load() on an instance that Load returned
ConfigLoad(t, i) ==
  /\ Running
  /\ th[t].pc = "idle"
  /\ i \in published
  /\ th' = [th EXCEPT ![t] = [IdleThread EXCEPT !.pc = "I_read", !.op = "ILoad", !.yc = i]]
  /\ UNCHANGED <<configMap, rwl, heap, content, watchers, cb, aborted, hist, published>>

\* c.Reload() on an instance that Load returned
ConfigReload(t, i) ==
  /\ Running
  /\ th[t].pc = "idle"
  /\ i \in published
  /\ th' = [th EXCEPT ![t] = [IdleThread EXCEPT !.pc = "X_read", !.op = "IReload", !.yc = i]]
  /\ UNCHANGED <<configMap, rwl, heap, content, watchers, cb, aborted, hist, published>>

\* ------------------------------------------------------ the provider ---
\* the resource at path q changes (or disappears)
Change(q, b) ==
  /\ Running
  /\ content[q] # b
  /\ content' = [content EXCEPT ![q] = b]
  /\ UNCHANGED <<configMap, rwl, heap, watchers, th, cb, aborted, hist, published>>

\* the provider calls a registered callback with path p; what a Load for
\* that path has read by now was read before this notification
WatchCall(w, p) ==
  /\ Running
  /\ cb.pc = "idle"
  /\ w \in watchers
  /\ cb' = [pc |-> "test", key |-> w.key, path |-> w.path, arg |-> p]
  /\ th' = [u \in Threads |->
              IF th[u].op = "Load" /\ th[u].path = p /\ th[u].didRead
              THEN [th[u] EXCEPT !.stale = TRUE]
              ELSE th[u]]
  /\ UNCHANGED <<configMap, rwl, heap, content, watchers, aborted, hist, published>>

\* line 72: if p == path; a callback for another path returns
WatchTest ==
  /\ Running
  /\ cb.pc = "test"
  /\ cb' = IF Matches(cb.arg, cb.path) THEN [cb EXCEPT !.pc = "lock"] ELSE IdleCb
  /\ UNCHANGED <<configMap, rwl, heap, content, watchers, th, aborted, hist, published>>

\* line 73: loader.rwl.Lock() in the callback
WatchLock ==
  /\ Running
  /\ cb.pc = "lock"
  /\ rwl.writer = NoThread
  /\ rwl.readers = {}
  /\ rwl' = [rwl EXCEPT !.writer = CbThread]
  /\ cb' = [cb EXCEPT !.pc = "delete"]
  /\ UNCHANGED <<configMap, heap, content, watchers, th, aborted, hist, published>>

\* a callback that also empties the instance it evicts
WatchDeleteWipesInstance ==
  /\ Running
  /\ cb.pc = "delete"
  /\ LET key == cb.key
         evicts == key \in DOMAIN configMap IN
     /\ configMap' = Delete(configMap, key)
     /\ heap' = IF evicts
                THEN [heap EXCEPT ![configMap[key]].rawData = NoBytes,
                                  ![configMap[key]].unmarshedData = NilTree]
                ELSE heap
     /\ hist' = IF evicts THEN [hist EXCEPT ![key] = [NoHist EXCEPT !.evSince = configMap[key]]]
                ELSE hist
     /\ th' = [u \in Threads |->
                 IF evicts /\ u \in InFlight(key)
                 THEN [th[u] EXCEPT !.expE = 0]
                 ELSE th[u]]
  /\ rwl' = [rwl EXCEPT !.writer = NoThread]
  /\ cb' = IdleCb
  /\ UNCHANGED <<content, watchers, aborted, published>>

\* lines 74-75: delete(loader.configMap, key), Unlock
WatchDelete ==
  /\ Running
  /\ cb.pc = "delete"
  /\ LET key == cb.key
         evicts == key \in DOMAIN configMap IN
     /\ configMap' = Delete(configMap, key)
     /\ hist' = IF evicts THEN [hist EXCEPT ![key] = [NoHist EXCEPT !.evSince = configMap[key]]]
                ELSE hist
     /\ th' = [u \in Threads |->
                 IF evicts /\ u \in InFlight(key)
                 THEN [th[u] EXCEPT !.expE = 0]
                 ELSE th[u]]
  /\ rwl' = [rwl EXCEPT !.writer = NoThread]
  /\ cb' = IdleCb
  /\ UNCHANGED <<heap, content, watchers, aborted, published>>

\* ------------------------------------------------------------- system ---
\* the steps of the calls in progress and of the callback goroutine
Steps ==
  \/ \E t \in Threads : LoadRLock(t)
  \/ \E t \in Threads : LoadLookup(t)
  \/ \E t \in Threads : InstLoadRead(t)
  \/ \E t \in Threads : InstLoadDecode(t)
  \/ \E t \in Threads : LoadWLock(t)
  \/ \E t \in Threads : LoadInsert(t)
  \/ \E t \in Threads : LoadWatch(t)
  \/ \E t \in Threads : ReloadRLock(t)
  \/ \E t \in Threads : ReloadLookup(t)
  \/ \E t \in Threads : InstReloadRead(t)
  \/ \E t \in Threads : InstReloadRaw(t)
  \/ \E t \in Threads : InstReloadTree(t)
  \/ \E t \in Threads : Return(t)
  \/ \E w \in watchers, p \in NotifyPaths : WatchCall(w, p)
  \/ WatchTest
  \/ WatchLock
  \/ WatchDelete

\* One goroutine makes every call of the API, one after the other, with
\* every outcome of the options; the provider's content takes every value
\* and its callbacks run on their own goroutine, concurrently with the calls.
Next ==
  \/ \E q \in Paths, d \in Codecs \cup {Nil}, p \in Providers \cup {Nil} : LoadStart(1, q, d, p)
  \/ \E q \in Paths, d \in Codecs \cup {Nil}, p \in Providers \cup {Nil} : ReloadStart(1, q, d, p)
  \/ \E i \in 1..MaxInst : ConfigLoad(1, i)
  \/ \E i \in 1..MaxInst : ConfigReload(1, i)
  \/ \E q \in Paths, b \in Docs \cup {NoFile} : Change(q, b)
  \/ Steps

Spec == Init /\ [][Next]_vars

\* Two goroutines race Load and Reload calls for the one key yaml.file.app
\* while the resource disappears and reappears and the callbacks run.
NextRace ==
  \/ \E t \in Threads, q \in Paths : LoadStart(t, q, "yaml", "file")
  \/ \E t \in Threads, q \in Paths : ReloadStart(t, q, "yaml", "file")
  \/ \E q \in Paths, b \in {JsonDoc, NoFile} : Change(q, b)
  \/ Steps

SpecRace == Init /\ [][NextRace]_vars

\* the steps of goroutine t, the return to its caller included
StepsOf(t) ==
  \/ LoadRLock(t) \/ LoadLookup(t) \/ InstLoadRead(t) \/ InstLoadDecode(t)
  \/ LoadWLock(t) \/ LoadInsert(t) \/ LoadWatch(t)
  \/ ReloadRLock(t) \/ ReloadLookup(t)
  \/ InstReloadRead(t) \/ InstReloadRaw(t) \/ InstReloadTree(t)
  \/ Return(t)

\* the steps of a callback that the provider has invoked
CallbackSteps == WatchTest \/ WatchLock \/ WatchDelete

\* The race, with the scheduling Go gives: every goroutine that can run
\* again and again does run, Read, Unmarshal and Watch return, and the
\* RWMutex lets no waiting Lock or RLock starve.
Fairness ==
  /\ \A t \in Threads : SF_vars(StepsOf(t))
  /\ SF_vars(CallbackSteps)

SpecLive == Init /\ [][NextRace]_vars /\ Fairness

\* Providers registered under names with and without a dot, and paths with
\* and without a dot: one goroutine loads and reloads every combination.
NameProviders == {"file", "file.etc"}
NamePaths == {"app", "etc.app"}
NameKeys == {CacheKey("yaml", p, q) : p \in NameProviders, q \in NamePaths}

InitNames ==
  /\ configMap = [k \in {} |-> 0]
  /\ rwl = [readers |-> {}, writer |-> NoThread]
  /\ heap = <<>>
  /\ content = [q \in NamePaths |-> IF q = "app" THEN JsonDoc ELSE YamlDoc]
  /\ watchers = {}
  /\ th = [t \in Threads |-> IdleThread]
  /\ cb = IdleCb
  /\ aborted = FALSE
  /\ hist = [k \in NameKeys |-> NoHist]
  /\ published = {}

NextNames ==
  \/ \E q \in NamePaths, p \in NameProviders : LoadStart(1, q, "yaml", p)
  \/ \E q \in NamePaths, p \in NameProviders : ReloadStart(1, q, "yaml", p)
  \/ Steps

SpecNames == InitNames /\ [][NextNames]_vars

\* ============================================================ lookup ===
\* a bool of the dynamic tree, and a map[interface{}]interface{}: a function
\* from key values to values
BoolV(b) == [kind |-> "bool", val |-> b]
UintV(n) == [kind |-> "uint", val |-> n]
IMapV(f) == [kind |-> "imap", val |-> f]

\* a key is written as the sequence of its pieces: "." or a run of characters
\* without a dot; the key string is their concatenation
Dot == "."

\* strings.Split(key, "."): the text between the dots, "" included; the
\* empty key has the one segment ""
RECURSIVE parseKey(_)
parseKey(key) ==
  IF key = <<>> THEN <<"">>
  ELSE LET r == parseKey(Tail(key)) IN
       IF Head(key) = Dot THEN <<"">> \o r
       ELSE <<Head(key) \o Head(r)>> \o Tail(r)

\* strconv.ParseInt(s, 0, 0) on the strings of the documents
ParseInt(s) ==
  CASE s = "8080" -> [ok |-> TRUE, val |-> 8080]
    [] s = "-3" -> [ok |-> TRUE, val |-> 0 - 3]
    [] OTHER -> [ok |-> FALSE, val |-> 0]

\* strconv.Itoa / FormatInt on the numbers of the documents
Itoa(n) ==
  CASE n = 5 -> "5"
    [] n = 7 -> "7"
    [] n = 8080 -> "8080"
    [] n = 0 - 3 -> "-3"
    [] OTHER -> "0"

\* strconv.ParseBool
ParseBool(s) ==
  CASE s \in {"1", "t", "T", "true", "TRUE", "True"} -> [ok |-> TRUE, val |-> TRUE]
    [] s \in {"0", "f", "F", "false", "FALSE", "False"} -> [ok |-> TRUE, val |-> FALSE]
    [] OTHER -> [ok |-> FALSE, val |-> FALSE]

\* cast.ToStringE
ToStringE(v) ==
  CASE v.kind = "string" -> [ok |-> TRUE, val |-> StrV(v.val)]
    [] v.kind \in {"int", "uint", "float"} -> [ok |-> TRUE, val |-> StrV(Itoa(v.val))]
    [] v.kind = "bool" -> [ok |-> TRUE, val |-> StrV(IF v.val THEN "true" ELSE "false")]
    [] v.kind = "nil" -> [ok |-> TRUE, val |-> StrV("")]
    [] OTHER -> [ok |-> FALSE, val |-> StrV("")]

\* cast.ToIntE
ToIntE(v) ==
  CASE v.kind \in {"int", "uint", "float"} -> [ok |-> TRUE, val |-> IntV(v.val)]
    [] v.kind = "string" -> [ok |-> ParseInt(v.val).ok, val |-> IntV(ParseInt(v.val).val)]
    [] v.kind = "bool" -> [ok |-> TRUE, val |-> IntV(IF v.val THEN 1 ELSE 0)]
    [] v.kind = "nil" -> [ok |-> TRUE, val |-> IntV(0)]
    [] OTHER -> [ok |-> FALSE, val |-> IntV(0)]

\* cast.ToUintE: a negative number is an error
ToUintE(v) ==
  LET i == ToIntE(v) IN
  IF i.ok /\ i.val.val >= 0 THEN [ok |-> TRUE, val |-> UintV(i.val.val)]
  ELSE [ok |-> FALSE, val |-> UintV(0)]

\* cast.ToFloat64E
ToFloat64E(v) ==
  LET i == ToIntE(v) IN [ok |-> i.ok, val |-> FloatV(i.val.val)]

\* cast.ToBoolE
ToBoolE(v) ==
  CASE v.kind = "bool" -> [ok |-> TRUE, val |-> BoolV(v.val)]
    [] v.kind = "nil" -> [ok |-> TRUE, val |-> BoolV(FALSE)]
    [] v.kind \in {"int", "uint", "float"} -> [ok |-> TRUE, val |-> BoolV(v.val # 0)]
    [] v.kind = "string" -> [ok |-> ParseBool(v.val).ok, val |-> BoolV(ParseBool(v.val).val)]
    [] OTHER -> [ok |-> FALSE, val |-> BoolV(FALSE)]

\* cast.ToStringMap: a map[string]interface{} as it is, a
\* map[interface{}]interface{} with its keys turned into strings, a string
\* parsed as a JSON object, and the empty map for anything else
ToStringMap(v) ==
  CASE v.kind = "map" -> v.val
    [] v.kind = "imap" ->
         [k \in {ToStringE(x).val.val : x \in DOMAIN v.val} |->
            v.val[CHOOSE x \in DOMAIN v.val : ToStringE(x).val.val = k]]
    [] v.kind = "string" -> JSONUnmarshal(v.val).tree.val
    [] OTHER -> EmptyMap.val

\* the result of a failed lookup: nil, ErrConfigNotExist
NotExist == [err |-> ErrConfigNotExist, v |-> NilTree]

\* FrameworkConfig.search
RECURSIVE search(_, _)
search(unmarshedData, subkeys) ==
  IF Len(subkeys) = 0 THEN NotExist
  ELSE IF Head(subkeys) \in DOMAIN unmarshedData
  THEN LET next == unmarshedData[Head(subkeys)] IN
       IF Len(subkeys) = 1 THEN [err |-> NoErr, v |-> next]
       ELSE CASE next.kind = "imap" -> search(ToStringMap(next), Tail(subkeys))
              [] next.kind = "map" -> search(next.val, Tail(subkeys))
              [] OTHER -> NotExist
  ELSE NotExist

\* FrameworkConfig.locateSubkey
locateSubkey(c, subkeys) == search(ToStringMap(c.unmarshedData), subkeys)

\* FrameworkConfig.find
find(c, key) == locateSubkey(c, parseKey(key))

\* FrameworkConfig.Get
Get(c, key, defaultValue) ==
  LET r == find(c, key) IN IF r.err = NoErr THEN r.v ELSE defaultValue

\* FrameworkConfig.IsSet
IsSet(c, key) == locateSubkey(c, parseKey(key)).err = NoErr

\* FrameworkConfig.Bytes
Bytes(c) == c.rawData

\* the conversion findWithDefaultValue picks by the type of the default
CastE(kind, v) ==
  CASE kind = "bool" -> ToBoolE(v)
    [] kind = "string" -> ToStringE(v)
    [] kind = "int" -> ToIntE(v)
    [] kind = "uint" -> ToUintE(v)
    [] kind = "float" -> ToFloat64E(v)
    [] OTHER -> [ok |-> TRUE, val |-> v]

\* a findWithDefaultValue that gives the zero value when the cast fails
findWithZeroValue(c, key, defaultValue) ==
  LET r == find(c, key) IN
  IF r.err # NoErr THEN defaultValue
  ELSE CastE(defaultValue.kind, r.v).val

\* FrameworkConfig.findWithDefaultValue
findWithDefaultValue(c, key, defaultValue) ==
  LET r == find(c, key) IN
  IF r.err # NoErr THEN defaultValue
  ELSE LET e == CastE(defaultValue.kind, r.v) IN
       IF ~e.ok THEN defaultValue ELSE e.val

\* GetInt, GetUint, GetFloat64, GetBool: cast.ToX(findWithDefaultValue(..)),
\* where cast.ToX gives the zero value on an error
GetTyped(c, key, defaultValue) ==
  CastE(defaultValue.kind, findWithDefaultValue(c, key, defaultValue)).val

\* FrameworkConfig.GetString
GetString(c, key, defaultValue) ==
  LET r == locateSubkey(c, parseKey(key)) IN
  IF r.err # NoErr THEN defaultValue
  ELSE IF r.v.kind = "string" THEN r.v
  ELSE IF ToStringE(r.v).ok THEN ToStringE(r.v).val
  ELSE defaultValue

\* --------------------------------------------- lookups on one tree ---
\* longest key built from every combination of the pieces a, b and "."
MaxKeyLen == 3

\* trees the decoders leave in unmarshedData: the documents of the model, a
\* tree with a map[interface{}]interface{}, a null, a bool and an empty
\* key, the nil of an instance never loaded, and documents that are one
\* scalar (a number, a string holding JSON text)
LookupTrees ==
  { YamlUnmarshal(JsonDoc).tree,
    JSONUnmarshal(JsonDoc).tree,
    YamlUnmarshal(YamlDoc).tree,
    MapV([k \in {"a", "b", "c", ""} |->
            CASE k = "a" -> IMapV([x \in {StrV("b")} |-> StrV("true")])
              [] k = "b" -> NilTree
              [] k = "c" -> BoolV(TRUE)
              [] OTHER -> IntV(0 - 3)]),
    EmptyMap,
    NilTree,
    IntV(5),
    StrV(JsonDoc) }

LookupKeys ==
  UNION {[1..n -> {"a", "b", Dot}] : n \in 0..MaxKeyLen}
    \cup { <<"a", Dot, "b", Dot, "c">>, <<"server", Dot, "port">>,
           <<"server", Dot, "missing">>, <<"c">>, <<"a", Dot, "b", Dot>> }

\* the defaults the callers pass, one of each type
Defaults == {StrV("dflt"), IntV(99), UintV(99), FloatV(99), BoolV(TRUE)}

\* one instance holding any of the trees, already returned to the caller
InitLookup ==
  /\ configMap = [k \in {} |-> 0]
  /\ rwl = [readers |-> {}, writer |-> NoThread]
  /\ heap \in {<<[newFullConfig("app", "yaml", "file") EXCEPT !.unmarshedData = tr]>> :
                 tr \in LookupTrees}
  /\ content = [q \in Paths |-> JsonDoc]
  /\ watchers = {}
  /\ th = [t \in Threads |-> IdleThread]
  /\ cb = IdleCb
  /\ aborted = FALSE
  /\ hist = [k \in Keys |-> NoHist]
  /\ published = {1}

\* a lookup call on instance i: key and default in, result in ret
LookupCall(t, i, op, key, defaultValue, result) ==
  /\ Running
  /\ th[t].pc = "idle"
  /\ i \in published
  /\ th' = [th EXCEPT ![t] = [IdleThread EXCEPT !.pc = "done", !.op = op, !.yc = i,
                                !.key = key, !.data = defaultValue, !.ret = result]]
  /\ UNCHANGED <<configMap, rwl, heap, content, watchers, cb, aborted, hist, published>>

\* c.Get(key, defaultValue)
GetCall(t, i, key, d) == LookupCall(t, i, "Get", key, d, Get(heap[i], key, d))

\* c.IsSet(key)
IsSetCall(t, i, key) == LookupCall(t, i, "IsSet", key, NilTree, IsSet(heap[i], key))

\* c.GetString(key, defaultValue)
GetStringCall(t, i, key, d) ==
  LookupCall(t, i, "GetString", key, d, GetString(heap[i], key, d))

\* c.GetInt, c.GetUint, c.GetFloat64, c.GetBool (key, defaultValue)
GetTypedCall(t, i, key, d) ==
  LookupCall(t, i, "GetTyped", key, d, GetTyped(heap[i], key, d))

NextLookup ==
  \/ \E key \in LookupKeys, d \in Defaults : GetCall(1, 1, key, d)
  \/ \E key \in LookupKeys : IsSetCall(1, 1, key)
  \/ \E key \in LookupKeys : GetStringCall(1, 1, key, StrV("dflt"))
  \/ \E key \in LookupKeys, d \in Defaults \ {StrV("dflt")} : GetTypedCall(1, 1, key, d)
  \/ Return(1)

SpecLookup == InitLookup /\ [][NextLookup]_vars

\* ============================================================ claims ===
\* goroutine t is at the return of a call of operation op
Returned(t, op) == th[t].pc = "done" /\ th[t].op = op

\* -------------------------------------------------------------- C1 ---
\* C1: once a Load for a key has returned an instance, every Load for that
\* key invoked afterwards, and before any eviction of the key, returns that
\* same instance, whatever other Loads for the key are in flight.
C1_SameInstanceUntilEviction ==
  \A t \in Threads :
    Returned(t, "Load") /\ th[t].expE # 0 => th[t].err = NoErr /\ th[t].ret = th[t].expE

\* -------------------------------------------------------------- C2 ---
\* C2: two Loads of the same key that both hit the cache, with no eviction
\* of the key between their lookups, return the same instance.
C2_HitsReturnSameInstance ==
  \A t \in Threads :
    Returned(t, "Load") /\ th[t].found /\ th[t].hitE # 0 => th[t].ret = th[t].hitE

\* -------------------------------------------------------------- C3 ---
\* C3: the first Load of a key invoked after a notification evicted the key
\* does not return the evicted instance and does not come out of the cache:
\* when it returns an instance it has missed, read and decoded anew, and the
\* instance is the one it created.
C3_NextLoadMisses ==
  \A t \in Threads :
    Returned(t, "Load") /\ th[t].next # 0 /\ th[t].err = NoErr =>
      /\ ~th[t].found
      /\ th[t].didRead
      /\ th[t].ret = th[t].yc
      /\ th[t].ret # th[t].next

\* -------------------------------------------------------------- C4 ---
\* C4: Load and Reload of the loader and Load of an instance never panic,
\* whatever the options resolve to: every failure comes back as an error.
C4_NeverPanics == ~aborted /\ \A t \in Threads : th[t].pc # "panic"

\* -------------------------------------------------------------- C5 ---
\* C5: when FrameworkConfig.Load has read the bytes and the decoder fails
\* on them, Load returns the parse error and the stored raw bytes and tree
\* are what they were before the call.
C5_ParseFailureKeepsState ==
  \A t \in Threads :
    th[t].pc = "done" /\ th[t].op \in {"Load", "ILoad"} /\ th[t].err = ErrParse =>
      ~th[t].changed

\* -------------------------------------------------------------- C6 ---
\* the instances a caller can look at: those in the cache and those returned
Observable == published \cup {configMap[k] : k \in DOMAIN configMap}

\* the tree is the decode of the raw bytes, or both are still empty
Consistent(c) ==
  \/ c.rawData = NoBytes /\ c.unmarshedData = NilTree
  \/ /\ c.rawData # NoBytes
     /\ Unmarshal(c.decoder, c.rawData).ok
     /\ c.unmarshedData = Unmarshal(c.decoder, c.rawData).tree

\* C6: in every state a caller can observe, rawData and unmarshedData of
\* every instance are consistent with each other.
C6_AlwaysConsistent == \A i \in Observable : Consistent(heap[i])

\* -------------------------------------------------------------- C7 ---
\* C7: a FullConfigLoader.Load that fails on the provider's Read or on the
\* decode has inserted, replaced and removed no cache entry and registered
\* no watch callback.
C7_FailedLoadLeavesCache ==
  \A t \in Threads :
    Returned(t, "Load") /\ th[t].err \in {ErrLoad, ErrParse} =>
      /\ ~th[t].touched
      /\ th[t].ret = 0
      /\ \A k \in DOMAIN configMap : configMap[k] # th[t].yc
      /\ th[t].yc \notin published

\* a Load has failed to parse what it read while another key is cached
C7_Witness ==
  \E t \in Threads :
    /\ Returned(t, "Load") /\ th[t].err = ErrParse /\ th[t].didRead
    /\ DOMAIN configMap # {}

\* -------------------------------------------------------------- C8 ---
\* C8: FullConfigLoader.Reload returns ErrConfigNotExist exactly when its
\* lookup does not find the key and nil exactly when it finds it, whether
\* or not the instance's Reload succeeded, and changes no cache entry.
C8_ReloadResult ==
  \A t \in Threads :
    Returned(t, "Reload") =>
      /\ th[t].err = ErrConfigNotExist <=> ~th[t].found
      /\ th[t].err = NoErr <=> th[t].found
      /\ ~th[t].touched

\* a Reload returns nil although the instance's Reload failed
C8_Witness ==
  \E t \in Threads :
    Returned(t, "Reload") /\ th[t].found /\ th[t].ierr # NoErr /\ th[t].err = NoErr

\* -------------------------------------------------------------- C9 ---
\* C9: FrameworkConfig.Reload writes neither the raw bytes nor the tree when
\* the Read or the decode fails, and writes both, the bytes it read and
\* their decode, when both succeed.
C9_ReloadAllOrNothing ==
  \A t \in Threads :
    th[t].pc = "done" /\ th[t].op \in {"Reload", "IReload"} /\ th[t].yc # 0 =>
      LET c == heap[th[t].yc]
          d == Unmarshal(c.decoder, th[t].data) IN
      IF th[t].ierr # NoErr
      THEN th[t].wroteRaw = NoWrite /\ th[t].wroteTree = NoWriteTree /\ ~th[t].changed
      ELSE /\ th[t].didRead /\ d.ok
           /\ th[t].wroteRaw = th[t].data /\ th[t].wroteTree = d.tree
           /\ c.rawData = th[t].data /\ c.unmarshedData = d.tree

\* a Reload has replaced the bytes and the tree of an instance
C9_Witness ==
  \E t \in Threads :
    /\ th[t].pc = "done" /\ th[t].op \in {"Reload", "IReload"} /\ th[t].yc # 0
    /\ th[t].ierr = NoErr /\ th[t].changed
    /\ heap[th[t].yc].rawData = YamlDoc

\* ------------------------------------------------------------- C10 ---
\* C10 (as stated): Load fails with ErrProviderNotExist whenever the
\* provider is absent and with ErrCodecNotExist whenever the decoder is
\* absent, without a provider read or a change of the cache.
C10_Original ==
  \A t \in Threads :
    Returned(t, "Load") =>
      /\ th[t].p = Nil => th[t].err = ErrProviderNotExist
      /\ th[t].decoder = Nil => th[t].err = ErrCodecNotExist
      /\ th[t].p = Nil \/ th[t].decoder = Nil => ~th[t].didRead /\ ~th[t].touched

\* C10 (amended): Load fails with ErrCodecNotExist whenever the decoder is
\* absent, and with ErrProviderNotExist whenever the provider is absent and
\* the decoder is present; in either case without a provider read or a
\* change of the cache.
C10_Amended ==
  \A t \in Threads :
    Returned(t, "Load") =>
      /\ th[t].decoder = Nil => th[t].err = ErrCodecNotExist
      /\ th[t].decoder # Nil /\ th[t].p = Nil => th[t].err = ErrProviderNotExist
      /\ th[t].p = Nil \/ th[t].decoder = Nil =>
           ~th[t].didRead /\ ~th[t].touched /\ th[t].ret = 0 /\ th[t].yc = 0

\* a Load with neither decoder nor provider fails on the decoder
C10_Witness ==
  \E t \in Threads :
    Returned(t, "Load") /\ th[t].decoder = Nil /\ th[t].p = Nil /\ th[t].err = ErrCodecNotExist

\* ------------------------------------------------------------- C12 ---
\* the segments of a key by position: segment k is the text between dot
\* k-1 and dot k
DotsBefore(key, i) == Cardinality({j \in 1..(i - 1) : key[j] = Dot})

RECURSIVE TextOf(_, _, _)
TextOf(key, k, i) ==
  IF i > Len(key) THEN ""
  ELSE (IF key[i] # Dot /\ DotsBefore(key, i) = k - 1 THEN key[i] ELSE "")
         \o TextOf(key, k, i + 1)

RefSegments(key) == [k \in 1..(DotsBefore(key, Len(key) + 1) + 1) |-> TextOf(key, k, 1)]

\* a node is a mapping, and a mapping has a segment
IsMapping(n) == n.kind \in {"map", "imap"}
HasSegment(n, seg) ==
  IF n.kind = "map" THEN seg \in DOMAIN n.val ELSE StrV(seg) \in DOMAIN n.val
Child(n, seg) == IF n.kind = "map" THEN n.val[seg] ELSE n.val[StrV(seg)]

\* the reference navigation: from the root, every segment must be present
\* in a mapping; the value under the last segment is the result
RECURSIVE RefNav(_, _)
RefNav(node, segs) ==
  IF ~IsMapping(node) \/ ~HasSegment(node, Head(segs)) THEN [set |-> FALSE, v |-> NilTree]
  ELSE IF Len(segs) = 1 THEN [set |-> TRUE, v |-> Child(node, Head(segs))]
  ELSE RefNav(Child(node, Head(segs)), Tail(segs))

RefLookup(t) == RefNav(heap[th[t].yc].unmarshedData, RefSegments(th[t].key))

\* C12: for every tree and key, IsSet(key) is true exactly when the
\* reference navigation finds every segment in a mapping, and Get(key, d)
\* returns the stored value when it does and d otherwise.
C12_LookupAgreesWithReference ==
  \A t \in Threads :
    /\ Returned(t, "IsSet") => th[t].ret = RefLookup(t).set
    /\ Returned(t, "Get") =>
         th[t].ret = IF RefLookup(t).set THEN RefLookup(t).v ELSE th[t].data

\* ------------------------------------------------------------- C13 ---
\* what a typed getter owes its caller: the default when the lookup fails or
\* the found value has no conversion to the default's type, the converted
\* value otherwise
Owed(t) ==
  LET f == find(heap[th[t].yc], th[t].key)
      e == CastE(th[t].data.kind, f.v) IN
  IF f.err # NoErr \/ ~e.ok THEN th[t].data ELSE e.val

\* C13: every typed getter returns the caller's default when the lookup
\* fails or the found value cannot be converted to the requested type, and
\* the converted found value otherwise; the result always has the
\* requested type.
C13_TypedGetters ==
  \A t \in Threads :
    Returned(t, "GetTyped") \/ Returned(t, "GetString") =>
      /\ th[t].ret = Owed(t)
      /\ th[t].ret.kind = th[t].data.kind

\* a GetInt on a key whose value is a mapping comes back with the default
C13_Witness ==
  \E t \in Threads :
    /\ Returned(t, "GetTyped") /\ th[t].data = IntV(99)
    /\ find(heap[th[t].yc], th[t].key).err = NoErr
    /\ find(heap[th[t].yc], th[t].key).v.kind = "map"
    /\ th[t].ret = IntV(99)

\* ------------------------------------------------------------- C11 ---
\* the callback's delete takes place in this step
Evicting == cb.pc = "delete" /\ cb'.pc = "idle"

\* C11: the eviction of a key by a change notification removes the cache
\* entry and nothing else: every instance keeps its raw bytes, tree, path,
\* provider and decoder, so Bytes, IsSet and Get on it return after the
\* eviction what they returned before it.
C11_EvictionKeepsInstance ==
  [][Evicting =>
       \A i \in 1..Len(heap) :
         /\ heap'[i] = heap[i]
         /\ Bytes(heap'[i]) = Bytes(heap[i])
         /\ \A key \in LookupKeys :
              /\ IsSet(heap'[i], key) = IsSet(heap[i], key)
              /\ Get(heap'[i], key, StrV("dflt")) = Get(heap[i], key, StrV("dflt"))]_vars

\* a caller holds a loaded instance that a notification has evicted
C11_Witness ==
  \E k \in Keys :
    /\ hist[k].evSince # 0
    /\ hist[k].evSince \in published
    /\ k \notin DOMAIN configMap
    /\ Bytes(heap[hist[k].evSince]) = JsonDoc
    /\ IsSet(heap[hist[k].evSince], <<"a", Dot, "b">>)

\* ------------------------------------------------------------- C14 ---
\* goroutine t executes loader.configMap[key] = yc in this step
Inserting(t) == th[t].pc = "L_insert" /\ th'[t].pc = "L_watch"

\* a Load of t that missed the cache
Missed(t) == th[t].op = "Load" /\ th[t].yc # 0

\* C14: Loads that miss the cache each read and decode into an instance of
\* their own and return it; an insert leaves its own instance as the key's
\* entry whatever was there, only an insert gives the key an entry, and so
\* the entry is the instance of the insert that happened last.
C14_LastInsertWins ==
  [][/\ \A t \in Threads :
          Inserting(t) => configMap'[th[t].key] = th[t].yc
     /\ \A k \in DOMAIN configMap' :
          k \notin DOMAIN configMap \/ configMap'[k] # configMap[k] =>
            \E t \in Threads : Inserting(t) /\ th[t].key = k /\ configMap'[k] = th[t].yc
     /\ DOMAIN configMap' \subseteq Keys
     /\ \A t \in Threads :
          (th'[t].pc = "done" /\ Missed(t)' /\ th'[t].err = NoErr) =>
            /\ th'[t].ret = th'[t].yc
            /\ th'[t].didRead
            /\ th'[t].wroteRaw # NoWrite /\ th'[t].wroteTree # NoWriteTree
            /\ \A u \in Threads \ {t} : Missed(u)' => th'[u].yc # th'[t].yc]_vars

\* two Loads have missed together and both have inserted: one returns its
\* own instance while the entry is the instance of the other
C14_Witness ==
  \E t \in Threads, u \in Threads :
    /\ t # u
    /\ Returned(t, "Load") /\ Missed(t) /\ th[t].err = NoErr /\ th[t].ret = th[t].yc
    /\ Missed(u) /\ th[u].pc = "L_watch" /\ th[u].key = th[t].key
    /\ th[t].key \in DOMAIN configMap
    /\ configMap[th[t].key] = th[u].yc
    /\ th[u].yc # th[t].yc

\* ------------------------------------------------------------- C15 ---
\* goroutine t holds the cache lock, on the read or the write side
HoldsLock(t) == t \in rwl.readers \/ rwl.writer = t

\* t is inside p.Read, decoder.Unmarshal, p.Watch or an instance's Reload
InExternalCall(t) ==
  th[t].pc \in {"I_read", "I_decode", "L_watch", "X_read", "X_raw", "X_tree"}

\* C15: a goroutine that is inside the provider's Read or Watch, the
\* decoder's Unmarshal or an instance's Reload holds the cache lock on
\* neither side.
C15_NoLockAcrossCalls ==
  \A t \in Threads : InExternalCall(t) => ~HoldsLock(t)

\* a Reload is inside the instance's Reload while the callback has the
\* write lock
C15_Witness ==
  \E t \in Threads :
    th[t].op = "Reload" /\ th[t].pc = "X_read" /\ rwl.writer = CbThread

\* ------------------------------------------------------------- C16 ---
\* C16: a step of a watch callback changes the cache only when the notified
\* path is the path of the Load that registered it, and then it removes the
\* key of that Load and nothing else: every other entry stays, and no entry
\* is inserted or replaced.
C16_NotificationOnlyDeletesOwnKey ==
  [][cb' # cb /\ configMap' # configMap =>
       /\ cb.arg = cb.path
       /\ DOMAIN configMap' = DOMAIN configMap \ {cb.key}
       /\ \A k \in DOMAIN configMap' : configMap'[k] = configMap[k]]_vars

\* a notification has evicted one key while the entry of another key, for
\* the same path, is still in the cache
C16_Witness ==
  \E k \in Keys :
    /\ hist[k].evSince # 0
    /\ k \notin DOMAIN configMap
    /\ DOMAIN configMap # {}
    /\ cb.pc = "idle"

\* ------------------------------------------------------------- C17 ---
\* C17: Loads whose decoder, provider or path differ never share a cache
\* entry: the instance a Load returns was built with the decoder, the
\* provider and the path of that Load, also when names or paths have dots.
C17_KeyInjective ==
  \A t \in Threads :
    Returned(t, "Load") /\ th[t].err = NoErr =>
      /\ heap[th[t].ret].decoder = th[t].decoder
      /\ heap[th[t].ret].p = th[t].p
      /\ heap[th[t].ret].path = th[t].path

\* ------------------------------------------------------------- C18 ---
\* C18: once a notification for a path has been delivered and handled and
\* the Loads that were in flight have finished, the cache holds no instance
\* for that path whose bytes were read before the notification and are no
\* longer what the provider has.
C18_NoEntryOlderThanNotification ==
  \A t \in Threads :
    /\ Returned(t, "Load") /\ th[t].err = NoErr /\ th[t].stale
    /\ \A u \in Threads \ {t} : th[u].pc = "idle"
    /\ cb.pc = "idle"
    /\ heap[th[t].ret].rawData # content[th[t].path]
    => ~(th[t].key \in DOMAIN configMap /\ configMap[th[t].key] = th[t].ret)

\* ------------------------------------------------------------- C19 ---
\* no call and no callback is in progress
Quiet == cb.pc = "idle" /\ \A t \in Threads : th[t].pc \in {"idle", "done"}

LockFree == rwl.readers = {} /\ rwl.writer = NoThread

\* C19: every Load and Reload call and every watch callback that has begun
\* completes, whatever runs next to it, and whenever no call and no
\* callback is in progress the cache lock is free.
C19_CallsTerminate ==
  /\ [](Quiet => LockFree)
  /\ \A t \in Threads : (th[t].pc # "idle") ~> (th[t].pc = "idle")
  /\ (cb.pc # "idle") ~> (cb.pc = "idle")

\* a callback waits for the write lock that a Load holds for its insert
C19_Witness ==
  /\ cb.pc = "lock"
  /\ rwl.writer \in Threads
  /\ th[rwl.writer].pc = "L_insert"

====
